---- MODULE Spec2Model ----
(***************************************************************************)
(* Model of addon/-private/validators.js (ember-argument-types): the seven  *)
(* validator constructors, applied to JavaScript values.  A validation call *)
(* is one step: the inputs (validator specification, value, context path)   *)
(* are drawn at Init, and the action of the resolved validator's kind runs  *)
(* the whole validator function and records what it returned.               *)
(***************************************************************************)
EXTENDS Integers, Sequences, FiniteSets, TLC

VARIABLES spec, value, context, result, visited, pc

vars == <<spec, value, context, result, visited, pc>>

(***************************************************************************)
(* Bounds of the model.                                                     *)
(***************************************************************************)
\* longest array value under test
MaxLen == 3
\* longest list of union alternatives built from leaf specifications
MaxAlts == 2
\* longest list of allowed values of a one-of validator
MaxAllowed == 2

(***************************************************************************)
(* JavaScript values.  Numbers carry their decimal form, so that NaN, 0 and *)
(* -0 are distinct values; objects and arrays carry a reference identity.   *)
(***************************************************************************)
Undefined == [kind |-> "undefined"]

Null == [kind |-> "null"]

Num(n) == [kind |-> "number", num |-> n]

Str(s) == [kind |-> "string", str |-> s]

\* an object: reference, class, own enumerable keys in insertion order
Obj(r, k, ks, p) == [kind |-> "object", ref |-> r, klass |-> k, keys |-> ks, props |-> p]

Arr(r, e) == [kind |-> "array", ref |-> r, elems |-> e]

\* a thrown TypeError (the call does not return)
Thrown == [kind |-> "throw", error |-> "TypeError"]

\* the two-element array [message, context] a binary validator returns
Pair(m, c) == [kind |-> "pair", message |-> m, context |-> c]

\* typeof value
TypeofJS(v) ==
    CASE v.kind = "null" -> "object"
      [] v.kind = "array" -> "object"
      [] OTHER -> v.kind

\* a === b
StrictEquals(a, b) ==
    IF a.kind # b.kind THEN FALSE
    ELSE CASE a.kind = "number" ->
                IF a.num = "NaN" \/ b.num = "NaN" THEN FALSE
                ELSE \/ a.num = b.num
                     \/ {a.num, b.num} = {"0", "-0"}
           [] a.kind \in {"object", "array"} -> a.ref = b.ref
           [] OTHER -> a = b

\* SameValueZero(a, b), the comparison of Array.prototype.includes
SameValueZero(a, b) ==
    \/ StrictEquals(a, b)
    \/ a.kind = "number" /\ b.kind = "number" /\ a.num = "NaN" /\ b.num = "NaN"

\* if (error): a returned value is truthy
Truthy(r) ==
    CASE r.kind = "undefined" -> FALSE
      [] r.kind = "null" -> FALSE
      [] r.kind = "string" -> r.str # ""
      [] r.kind = "number" -> r.num \notin {"0", "-0", "NaN"}
      [] OTHER -> TRUE

\* value instanceof klass
InstanceOfJS(v, klass) ==
    CASE v.kind = "object" -> klass \in {v.klass, "Object"}
      [] v.kind = "array" -> klass \in {"Array", "Object"}
      [] v.kind = "function" -> klass \in {"Function", "Object"}
      [] OTHER -> FALSE

\* get(object, key) of @ember/object on a non-null object
get(v, key) ==
    IF v.kind = "object" /\ key \in DOMAIN v.props THEN v.props[key] ELSE Undefined

\* isArray(values) of @ember/array
isArray(v) == v.kind = "array"

RECURSIVE Join(_, _)
\* strings.join(sep)
Join(strings, sep) ==
    IF Len(strings) = 0 THEN ""
    ELSE IF Len(strings) = 1 THEN strings[1]
    ELSE strings[1] \o sep \o Join(Tail(strings), sep)

(***************************************************************************)
(* ./utils: context path, value introspection, validator resolution.        *)
(***************************************************************************)
\* a context producer over the path accumulated so far
createContextPath(base) == [make |-> "createContextPath", base |-> base]

\* context(): the path string
ContextPathOf(c) == c.base

\* context(next): a new producer for path + segment
ContextExtend(c, next) ==
    createContextPath(IF c.base = "" THEN next ELSE c.base \o "." \o next)

\* typeOf(value): display-oriented kind
typeOf(v) ==
    CASE v.kind = "null" -> "null"
      [] v.kind = "array" -> "array"
      [] OTHER -> TypeofJS(v)

RECURSIVE toString(_)
\* toString(value): rendering of a value inside a message
toString(v) ==
    CASE v.kind = "string" -> "\"" \o v.str \o "\""
      [] v.kind = "number" -> v.num
      [] v.kind = "function" -> v.make
      [] v.kind = "array" ->
           "[" \o Join([i \in 1..Len(v.elems) |-> toString(v.elems[i])], ", ") \o "]"
      [] v.kind = "object" ->
           "{" \o Join([i \in 1..Len(v.keys) |->
                          v.keys[i] \o ": " \o toString(v.props[v.keys[i]])], ", ") \o "}"
      [] OTHER -> v.kind

(***************************************************************************)
(* The validator constructors.  Each returns a function value; the function *)
(* bodies are the operators further down.                                   *)
(***************************************************************************)
createTypeValidator(expectedType) ==
    [kind |-> "function", make |-> "createTypeValidator", expectedType |-> expectedType]

createEqualityValidator(expectedValue) ==
    [kind |-> "function", make |-> "createEqualityValidator", expectedValue |-> expectedValue]

createInstanceOfValidator(klass) ==
    [kind |-> "function", make |-> "createInstanceOfValidator", klass |-> klass]

createShapeValidator(validators) ==
    [kind |-> "function", make |-> "createShapeValidator", validators |-> validators]

createArrayValidator(validator) ==
    [kind |-> "function", make |-> "createArrayValidator", validator |-> validator]

createOneOfValidator(allowedValues) ==
    [kind |-> "function", make |-> "createOneOfValidator", allowedValues |-> allowedValues]

createUnionOfValidator(validatorList) ==
    [kind |-> "function", make |-> "createUnionOfValidator", validatorList |-> validatorList]

\* ensureValidator(spec): type name, validator function, mapping, literal
ensureValidator(s) ==
    CASE s.kind = "string" -> createTypeValidator(s.str)
      [] s.kind = "function" -> s
      [] s.kind = "object" -> createShapeValidator(s)
      [] OTHER -> createEqualityValidator(s)

\* what a validator call produced: the returned value (or Thrown), and the
\* keys, indices or alternatives whose validators it invoked, in order
Outcome(ret, seen) == [ret |-> ret, visited |-> seen]

\* the function returned by createTypeValidator
typeValidator(expectedType, v) ==
    IF TypeofJS(v) # expectedType
    THEN Str("Expected type " \o expectedType \o " but received " \o typeOf(v))
    ELSE Undefined

\* the function returned by createEqualityValidator
equalityValidator(expectedValue, v) ==
    IF ~StrictEquals(v, expectedValue)
    THEN Str("Expected value to equal " \o toString(expectedValue)
             \o " but received " \o toString(v))
    ELSE Undefined

\* the function returned by createInstanceOfValidator
instanceOfValidator(klass, v, ctx) ==
    IF ~InstanceOfJS(v, klass)
    THEN Pair("Expected value to be an instance of " \o klass
              \o " but received " \o toString(v), ctx)
    ELSE Undefined

RECURSIVE includes(_, _)
\* allowedValues.includes(value)
includes(allowedValues, v) ==
    IF Len(allowedValues) = 0 THEN FALSE
    ELSE SameValueZero(Head(allowedValues), v) \/ includes(Tail(allowedValues), v)

\* a == b between primitives: a number and a string of its digits are equal
LooseEquals(a, b) ==
    \/ StrictEquals(a, b)
    \/ a.kind = "number" /\ b.kind = "string" /\ a.num = b.str
    \/ a.kind = "string" /\ b.kind = "number" /\ a.str = b.num

\* createOneOfValidator's function with membership decided by ==
oneOfValidatorLoose(allowedValues, v, ctx) ==
    IF ~(\E i \in 1..Len(allowedValues) : LooseEquals(allowedValues[i], v))
    THEN Pair("Expected the value to be"
              \o (IF Len(allowedValues) > 1 THEN " one of" ELSE "") \o " "
              \o Join([i \in 1..Len(allowedValues) |-> toString(allowedValues[i])], ", ")
              \o " but received " \o toString(v), ctx)
    ELSE Undefined

\* the function returned by createOneOfValidator
oneOfValidator(allowedValues, v, ctx) ==
    IF ~includes(allowedValues, v)
    THEN Pair("Expected the value to be"
              \o (IF Len(allowedValues) > 1 THEN " one of" ELSE "") \o " "
              \o Join([i \in 1..Len(allowedValues) |-> toString(allowedValues[i])], ", ")
              \o " but received " \o toString(v), ctx)
    ELSE Undefined

RECURSIVE Invoke(_, _, _)
RECURSIVE shapeLoop(_, _, _, _)
RECURSIVE arrayLoop(_, _, _, _)
RECURSIVE unionLoop(_, _, _, _, _)

\* validator(value, context): the value returned, or Thrown
Apply(fn, v, ctx) == Invoke(fn, v, ctx).ret

\* for (const key of Object.keys(validators)), from the i-th key on
shapeLoop(validators, i, v, ctx) ==
    IF i > Len(validators.keys) THEN Outcome(Undefined, <<>>)
    ELSE LET key == validators.keys[i]
             nextContext == createContextPath(ContextPathOf(ctx))
             error == Apply(ensureValidator(validators.props[key]), get(v, key),
                            ContextExtend(nextContext, key))
         IN  IF error = Thrown \/ Truthy(error)
             THEN Outcome(error, <<key>>)
             ELSE LET rest == shapeLoop(validators, i + 1, v, ctx)
                  IN  Outcome(rest.ret, <<key>> \o rest.visited)

\* createShapeValidator's function made closed: a key of the value that the
\* mapping does not declare is an error
shapeValidatorClosed(validators, v, ctx) ==
    LET error == Apply(ensureValidator(Str("object")), v, ctx)
    IN  IF Truthy(error) THEN Outcome(error, <<>>)
        ELSE IF v = Null
        THEN Outcome(Pair("Expected value to be a non-null object but received null", ctx),
                     <<>>)
        ELSE IF v.kind = "object"
                /\ \E k \in DOMAIN v.props : \A i \in 1..Len(validators.keys) :
                                                 validators.keys[i] # k
        THEN Outcome(Pair("Expected value to have no undeclared key", ctx), <<>>)
        ELSE shapeLoop(validators, 1, v, ctx)

\* the function returned by createShapeValidator
shapeValidator(validators, v, ctx) ==
    LET error == Apply(ensureValidator(Str("object")), v, ctx)
    IN  IF Truthy(error) THEN Outcome(error, <<>>)
        ELSE IF v = Null
        THEN Outcome(Pair("Expected value to be a non-null object but received null", ctx),
                     <<>>)
        ELSE shapeLoop(validators, 1, v, ctx)

\* for (let i = 0; i < values.length; i++), from index i on (1-based here)
arrayLoop(validator, i, values, ctx) ==
    IF i > Len(values.elems) THEN Outcome(Undefined, <<>>)
    ELSE LET nextContext == createContextPath(ContextPathOf(ctx))
             error == Apply(ensureValidator(validator), values.elems[i],
                            ContextExtend(nextContext, ToString(i - 1)))
         IN  IF error = Thrown \/ Truthy(error)
             THEN Outcome(error, <<ToString(i - 1)>>)
             ELSE LET rest == arrayLoop(validator, i + 1, values, ctx)
                  IN  Outcome(rest.ret, <<ToString(i - 1)>> \o rest.visited)

\* the function returned by createArrayValidator
arrayValidator(validator, values, ctx) ==
    IF ~isArray(values)
    THEN Outcome(Pair("Expected type array but received " \o typeOf(values), ctx), <<>>)
    ELSE arrayLoop(validator, 1, values, ctx)

\* errors.map(([error, context]) => `${context()} |> ${error}`): destructuring a
\* string error binds context to a character, and calling it throws
unionLines(errors) ==
    IF \E i \in 1..Len(errors) : errors[i].kind # "pair" THEN Thrown
    ELSE Str(Join([i \in 1..Len(errors) |->
                     ContextPathOf(errors[i].context) \o " |> " \o errors[i].message],
                  "\n"))

\* for (const validator of validators), from the i-th alternative on
unionLoop(validatorList, i, v, ctx, errors) ==
    IF i > Len(validatorList)
    THEN LET lines == unionLines(errors)
         IN  IF lines = Thrown THEN Outcome(Thrown, <<>>)
             ELSE Outcome(Pair("Expected the value to pass one of the provided validators:\n"
                               \o lines.str, ctx), <<>>)
    ELSE LET error == Apply(ensureValidator(validatorList[i]), v, ctx)
         IN  IF error = Thrown THEN Outcome(Thrown, <<ToString(i)>>)
             ELSE IF ~Truthy(error) THEN Outcome(Undefined, <<ToString(i)>>)
             ELSE LET rest == unionLoop(validatorList, i + 1, v, ctx, Append(errors, error))
                  IN  Outcome(rest.ret, <<ToString(i)>> \o rest.visited)

\* createUnionOfValidator's function with "no alternative failed" taken as
\* success when there is no alternative at all
unionOfValidatorVacuous(validatorList, v, ctx) ==
    IF Len(validatorList) = 0 THEN Outcome(Undefined, <<>>)
    ELSE unionLoop(validatorList, 1, v, ctx, <<>>)

\* the function returned by createUnionOfValidator
unionOfValidator(validatorList, v, ctx) == unionLoop(validatorList, 1, v, ctx, <<>>)

\* a call of a validator function
Invoke(fn, v, ctx) ==
    CASE fn.make = "createTypeValidator" -> Outcome(typeValidator(fn.expectedType, v), <<>>)
      [] fn.make = "createEqualityValidator" ->
           Outcome(equalityValidator(fn.expectedValue, v), <<>>)
      [] fn.make = "createInstanceOfValidator" ->
           Outcome(instanceOfValidator(fn.klass, v, ctx), <<>>)
      [] fn.make = "createShapeValidator" -> shapeValidator(fn.validators, v, ctx)
      [] fn.make = "createArrayValidator" -> arrayValidator(fn.validator, v, ctx)
      [] fn.make = "createOneOfValidator" ->
           Outcome(oneOfValidator(fn.allowedValues, v, ctx), <<>>)
      [] fn.make = "createUnionOfValidator" -> unionOfValidator(fn.validatorList, v, ctx)

(***************************************************************************)
(* The inputs of a validation call.                                         *)
(***************************************************************************)
\* all sequences over S of length at most n
SeqsUpTo(S, n) == UNION {[1..k -> S] : k \in 0..n}

\* the sequences over S with one or two elements
OneOrTwo(S) == {<<x>> : x \in S} \cup {<<x, y>> : x \in S, y \in S}

\* the set of elements of a sequence
Range(f) == {f[i] : i \in DOMAIN f}

\* a reference identity: objects of different class or content are different
\* objects, and so are two copies of the same content
Ref(copy, content) == [copy |-> copy, of |-> content]

\* the object written as a literal with the given keys and property values
Plain(ks, p) == Obj(Ref("first", <<"Object", ks, p>>), "Object", ks, p)

\* the array written as a literal with the given elements
Array(e) == Arr(Ref("first", e), e)

\* all plain objects with keys ks and property values from S
PlainOver(ks, S) == {Plain(ks, p) : p \in [Range(ks) -> S]}

Primitives ==
    {Undefined, Null, Num("1"), Num("2"), Num("0"), Num("-0"), Num("NaN"),
     Str("x"), Str("1")}

Leaves == {Num("1"), Str("x")}

\* two distinct objects with the same content, and an instance of class Foo
TwinA == Plain(<<"a">>, [a |-> Num("1")])

TwinB ==
    Obj(Ref("second", <<"Object", <<"a">>, [a |-> Num("1")]>>), "Object",
        <<"a">>, [a |-> Num("1")])

FooInstance ==
    Obj(Ref("first", <<"Foo", <<"a">>, [a |-> Num("1")]>>), "Foo",
        <<"a">>, [a |-> Num("1")])

FlatObjects ==
    PlainOver(<<>>, Leaves) \cup PlainOver(<<"a">>, Leaves \cup {Null})
    \cup PlainOver(<<"a", "b">>, Leaves) \cup PlainOver(<<"a", "b", "c">>, Leaves)

FlatArrays == {Array(e) : e \in SeqsUpTo(Leaves, MaxLen)}

ShortArrays == {a \in FlatArrays : Len(a.elems) < MaxLen}

NestedValues ==
    PlainOver(<<"a">>, ShortArrays \cup PlainOver(<<"a">>, Leaves)
                       \cup PlainOver(<<"a", "b">>, Leaves)
                       \cup PlainOver(<<"b">>, ShortArrays))
    \cup {Array(e) : e \in OneOrTwo(PlainOver(<<"a">>, Leaves))}
    \cup {Array(e) : e \in OneOrTwo({Array(<<>>), Array(<<Num("1")>>),
                                          Array(<<Str("x")>>)})}

Values == Primitives \cup {TwinB, FooInstance} \cup FlatObjects \cup FlatArrays
          \cup NestedValues

\* leaf specifications: type names, a literal, and binary validator functions
LeafSpecs ==
    {Str("number"), Str("string"), Num("1"),
     createOneOfValidator(<<Num("1")>>), createInstanceOfValidator("Foo")}

\* a mapping specification: a plain object of specifications
Mapping(ks, p) == Plain(ks, p)

MappingsOver(ks, S) == {Mapping(ks, p) : p \in [Range(ks) -> S]}

Shapes1 ==
    MappingsOver(<<>>, LeafSpecs) \cup MappingsOver(<<"a">>, LeafSpecs)
    \cup MappingsOver(<<"a", "b">>, LeafSpecs) \cup MappingsOver(<<"b", "a">>, LeafSpecs)

Arrays1 == {createArrayValidator(l) : l \in LeafSpecs}

Unions1 ==
    {createUnionOfValidator(alts) : alts \in SeqsUpTo(LeafSpecs \cup {Str("object")}, MaxAlts)}

\* the composites that appear nested inside other composites
Children ==
    MappingsOver(<<"a">>, LeafSpecs) \cup MappingsOver(<<"a", "b">>, LeafSpecs)
    \cup Arrays1
    \cup {createUnionOfValidator(alts) : alts \in OneOrTwo(LeafSpecs) \cup {<<>>}}

Composites2 ==
    MappingsOver(<<"a">>, Children)
    \cup {createArrayValidator(c) : c \in Children}
    \cup {createUnionOfValidator(<<c, l>>) :
            c \in Children, l \in {Str("object"), createOneOfValidator(<<Num("1")>>)}}

Composites3 ==
    MappingsOver(<<"a">>, MappingsOver(<<"b">>, Arrays1))

AllowedLeaves ==
    {Num("1"), Num("0"), Num("-0"), Num("NaN"), Str("1"), TwinA, Array(<<Num("1")>>)}

OneOfs == {createOneOfValidator(al) : al \in SeqsUpTo(AllowedLeaves, MaxAllowed)}

Primitives1 ==
    {Str("number"), Str("string"), Str("object"), Str("undefined"),
     Num("1"), Num("NaN"), Undefined,
     createInstanceOfValidator("Foo"), createInstanceOfValidator("Object"),
     createInstanceOfValidator("Array")}

Specs == Primitives1 \cup OneOfs \cup Shapes1 \cup Arrays1 \cup Unions1
         \cup Composites2 \cup Composites3

\* the root of a validation, and a position below another validation
Contexts == {createContextPath(""), createContextPath("root")}

Pending == [kind |-> "pending"]

(***************************************************************************)
(* The state machine: one validation call per behaviour.                    *)
(***************************************************************************)
Init ==
    /\ spec \in Specs
    /\ value \in Values
    /\ context \in Contexts
    /\ result = Pending
    /\ visited = <<>>
    /\ pc = "ready"

\* the resolved validator is about to be called
Ready(make) == pc = "ready" /\ ensureValidator(spec).make = make

\* the call returned (or threw)
Return(o) ==
    /\ result' = o.ret
    /\ visited' = o.visited
    /\ pc' = "done"
    /\ UNCHANGED <<spec, value, context>>

TypeCheck ==
    /\ Ready("createTypeValidator")
    /\ Return(Outcome(typeValidator(ensureValidator(spec).expectedType, value), <<>>))

EqualityCheck ==
    /\ Ready("createEqualityValidator")
    /\ Return(Outcome(equalityValidator(ensureValidator(spec).expectedValue, value), <<>>))

InstanceOfCheck ==
    /\ Ready("createInstanceOfValidator")
    /\ Return(Outcome(instanceOfValidator(ensureValidator(spec).klass, value, context), <<>>))

ShapeCheck ==
    /\ Ready("createShapeValidator")
    /\ Return(shapeValidator(ensureValidator(spec).validators, value, context))

ArrayCheck ==
    /\ Ready("createArrayValidator")
    /\ Return(arrayValidator(ensureValidator(spec).validator, value, context))

OneOfCheck ==
    /\ Ready("createOneOfValidator")
    /\ Return(Outcome(oneOfValidator(ensureValidator(spec).allowedValues, value, context), <<>>))

UnionOfCheck ==
    /\ Ready("createUnionOfValidator")
    /\ Return(unionOfValidator(ensureValidator(spec).validatorList, value, context))

Next ==
    \/ TypeCheck
    \/ EqualityCheck
    \/ InstanceOfCheck
    \/ ShapeCheck
    \/ ArrayCheck
    \/ OneOfCheck
    \/ UnionOfCheck

Spec == Init /\ [][Next]_vars

(***************************************************************************)
(* Vocabulary of the properties.                                            *)
(***************************************************************************)
\* the call of a validator made by the named constructor has finished
Called(make) == pc = "done" /\ ensureValidator(spec).make = make

\* typeof v === 'object' && v !== null
NonNullObject(v) == TypeofJS(v) = "object" /\ v # Null

\* a returned value that reports a failure
IsError(r) == r # Thrown /\ Truthy(r)

\* an ErrorResult: the pair (message, context producer)
IsErrorResult(r) == r.kind = "pair" /\ r.context.make = "createContextPath"

\* the declared keys of the shape under test, and what field i's validator
\* returns for the value's property when run at the path extended by the key
ShapeKeys == ensureValidator(spec).validators.keys

FieldResult(i) ==
    Apply(ensureValidator(ensureValidator(spec).validators.props[ShapeKeys[i]]),
          get(value, ShapeKeys[i]), ContextExtend(context, ShapeKeys[i]))

\* what the element validator returns for element i (0-based) at the path
\* extended by the index
ElementResult(i) ==
    Apply(ensureValidator(ensureValidator(spec).validator),
          value.elems[i + 1], ContextExtend(context, ToString(i)))

\* the alternatives of the union under test, and what alternative i returns
Alternatives == ensureValidator(spec).validatorList

AlternativeResult(i) == Apply(ensureValidator(Alternatives[i]), value, context)

\* a validator that recurses into a structure and extends the path itself
Descends(s) ==
    ensureValidator(s).make \in {"createShapeValidator", "createArrayValidator"}

UnionHeader == "Expected the value to pass one of the provided validators:\n"

RECURSIVE Route(_, _)
\* the field names and indices from a value to its first failing leaf
Route(s, v) ==
    LET fn == ensureValidator(s)
    IN  CASE fn.make = "createShapeValidator" /\ NonNullObject(v) ->
               LET ks == fn.validators.keys
                   bad == {i \in 1..Len(ks) :
                             Apply(ensureValidator(fn.validators.props[ks[i]]),
                                   get(v, ks[i]), createContextPath("")) # Undefined}
               IN  IF bad = {} THEN <<>>
                   ELSE LET i == CHOOSE m \in bad : \A n \in bad : m <= n
                        IN  <<ks[i]>> \o Route(fn.validators.props[ks[i]], get(v, ks[i]))
          [] fn.make = "createArrayValidator" /\ isArray(v) ->
               LET bad == {i \in 1..Len(v.elems) :
                             Apply(ensureValidator(fn.validator), v.elems[i],
                                   createContextPath("")) # Undefined}
               IN  IF bad = {} THEN <<>>
                   ELSE LET i == CHOOSE m \in bad : \A n \in bad : m <= n
                        IN  <<ToString(i - 1)>> \o Route(fn.validator, v.elems[i])
          [] OTHER -> <<>>

(***************************************************************************)
(* The properties.                                                          *)
(***************************************************************************)

\* C1: a validator never throws for a failed check: every call of a validator
\* built from the constructors returns nothing or an error, and raises nothing.
C1_NeverThrows == pc = "done" => result # Thrown

\* C2: a shape validator on a non-null object returns the error of the first
\* declared key whose validator rejects the property, as one ErrorResult, no
\* later field being validated, and with the path P extended by that key.
C2_ShapeFirstFailingField ==
    Called("createShapeValidator") /\ NonNullObject(value) =>
        \A i \in 1..Len(ShapeKeys) :
            (IsError(FieldResult(i)) /\ \A j \in 1..(i - 1) : ~IsError(FieldResult(j))) =>
                /\ IsErrorResult(result)
                /\ result = FieldResult(i)
                /\ visited = SubSeq(ShapeKeys, 1, i)
                /\ ~Descends(ensureValidator(spec).validators.props[ShapeKeys[i]]) =>
                       ContextPathOf(result.context)
                           = (IF ContextPathOf(context) = "" THEN ShapeKeys[i]
                              ELSE ContextPathOf(context) \o "." \o ShapeKeys[i])

\* C3: an array validator on an array returns the error of the smallest index
\* whose element is rejected, later elements are not validated, and the
\* error's path is P extended by the decimal index.
C3_ArrayFirstFailingIndex ==
    Called("createArrayValidator") /\ isArray(value) =>
        \A i \in 0..(Len(value.elems) - 1) :
            (IsError(ElementResult(i)) /\ \A j \in 0..(i - 1) : ~IsError(ElementResult(j))) =>
                /\ IsErrorResult(result)
                /\ result = ElementResult(i)
                /\ visited = [n \in 1..(i + 1) |-> ToString(n - 1)]
                /\ ~Descends(ensureValidator(spec).validator) =>
                       ContextPathOf(result.context)
                           = (IF ContextPathOf(context) = "" THEN ToString(i)
                              ELSE ContextPathOf(context) \o "." \o ToString(i))

\* C4: when shapes and arrays are nested and validation starts at the empty
\* root path, the error returned at the top carries the dot-joined field names
\* and indices from the root to the failing leaf, with no leading dot.
C4_NestedPathComposition ==
    (/\ pc = "done"
     /\ Descends(spec)
     /\ ContextPathOf(context) = ""
     /\ result # Undefined) =>
        /\ IsErrorResult(result)
        /\ ContextPathOf(result.context) = Join(Route(spec, value), ".")

\* C5: a union-of validator returns no error iff at least one alternative
\* accepts the value; alternatives are tried in order and none after the first
\* accepting one is evaluated.
C5_UnionShortCircuit ==
    Called("createUnionOfValidator") =>
        LET accepting == {i \in 1..Len(Alternatives) : AlternativeResult(i) = Undefined}
        IN  /\ result = Undefined <=> accepting # {}
            /\ accepting # {} =>
                   LET first == CHOOSE m \in accepting : \A n \in accepting : m <= n
                   IN  visited = [n \in 1..first |-> ToString(n)]

\* C6: when every alternative of a union-of validator rejects the value, the
\* validator returns one error at its own context whose message is the header
\* followed by one line per alternative, in order, `path |> message`.
C6_UnionAggregatesAtOwnPosition ==
    (/\ Called("createUnionOfValidator")
     /\ \A i \in 1..Len(Alternatives) : IsError(AlternativeResult(i))) =>
        /\ IsErrorResult(result)
        /\ result.context = context
        /\ \A i \in 1..Len(Alternatives) : IsErrorResult(AlternativeResult(i))
        /\ result.message
             = UnionHeader
               \o Join([i \in 1..Len(Alternatives) |->
                          ContextPathOf(AlternativeResult(i).context) \o " |> "
                          \o AlternativeResult(i).message], "\n")

\* C7: a composite validator (shape, array, union-of) returns either nothing
\* or exactly one ErrorResult, a pair (message, context producer).
C7_CompositeErrorShape ==
    (\/ Called("createShapeValidator")
     \/ Called("createArrayValidator")
     \/ Called("createUnionOfValidator")) =>
        result = Undefined \/ IsErrorResult(result)

\* C8 as stated: the one-of validator returns no error iff some allowed value
\* is strictly (===) equal to the value.
C8_StrictMembership ==
    Called("createOneOfValidator") =>
        (result = Undefined
           <=> \E i \in 1..Len(ensureValidator(spec).allowedValues) :
                   StrictEquals(ensureValidator(spec).allowedValues[i], value))

\* C8 as amended: the one-of validator returns no error iff some allowed value
\* is strictly equal to the value or both are NaN; otherwise it returns one
\* ErrorResult at its own context.  No coercion, no structural comparison, and
\* 0 and -0 are the same member.
C8_SameValueZeroMembership ==
    Called("createOneOfValidator") =>
        LET allowed == ensureValidator(spec).allowedValues
            member == \E i \in 1..Len(allowed) :
                         \/ StrictEquals(allowed[i], value)
                         \/ allowed[i] = Num("NaN") /\ value = Num("NaN")
        IN  IF member THEN result = Undefined
            ELSE IsErrorResult(result) /\ result.context = context

\* a one-of call that accepted NaN because NaN is among the allowed values
C8_Witness ==
    /\ Called("createOneOfValidator")
    /\ value = Num("NaN")
    /\ \E i \in 1..Len(ensureValidator(spec).allowedValues) :
           ensureValidator(spec).allowedValues[i] = Num("NaN")
    /\ result = Undefined

\* C9: shapes are open: two non-null objects with the same value for every
\* declared key get the same result, and when every declared field is
\* accepted no other key causes an error.
C9_OpenShape ==
    Called("createShapeValidator") /\ NonNullObject(value) =>
        /\ \A w \in Values :
               (/\ NonNullObject(w)
                /\ \A i \in 1..Len(ShapeKeys) :
                       get(w, ShapeKeys[i]) = get(value, ShapeKeys[i])) =>
                   shapeValidator(ensureValidator(spec).validators, w, context).ret = result
        /\ (\A i \in 1..Len(ShapeKeys) : FieldResult(i) = Undefined) => result = Undefined

\* a shape call on an object carrying an undeclared key, which was accepted
C9_Witness ==
    /\ Called("createShapeValidator")
    /\ value.kind = "object"
    /\ Len(ShapeKeys) > 0
    /\ \E k \in DOMAIN value.props : k \notin Range(ShapeKeys)
    /\ result = Undefined

\* C10: a union-of validator with no alternatives rejects every value with an
\* error at its own context whose message is the header alone; a shape with an
\* empty mapping accepts every non-null object; an array validator accepts
\* every empty array without running its element validator.
C10_EmptyComposites ==
    /\ (Called("createUnionOfValidator") /\ Alternatives = <<>>) =>
           result = Pair(UnionHeader, context) /\ visited = <<>>
    /\ (Called("createShapeValidator") /\ ShapeKeys = <<>> /\ NonNullObject(value)) =>
           result = Undefined /\ visited = <<>>
    /\ (Called("createArrayValidator") /\ isArray(value) /\ value.elems = <<>>) =>
           result = Undefined /\ visited = <<>>

\* a union-of call with no alternatives, which returned its error
C10_Witness ==
    /\ Called("createUnionOfValidator")
    /\ Alternatives = <<>>
    /\ result.kind = "pair"

====
